---- MODULE Spec2Model ----
(***************************************************************************)
(* The deals router of the CRM backend (src/backend/deals.js) over the    *)
(* deals table.  Under Spec a request is one atomic step: validation, the  *)
(* SQL of the handler, the HTTP response.  Under ConcSpec requests overlap: *)
(* each pool.query is one atomic step of the database, and the steps of    *)
(* the requests in flight interleave.                                      *)
(*                                                                         *)
(* Values.  A JSON field or SQL column that may be absent/NULL is an       *)
(* option: None is absent (undefined, null, SQL NULL), Some(v) a value.    *)
(* A text that the code trims is a sequence of one-character strings.      *)
(***************************************************************************)
EXTENDS Integers, Sequences, FiniteSets, TLC

\* ---------------------------------------------------------------- bounds
MaxId == 2
MaxTime == 1
MaxProcs == 2

\* ---------------------------------------------------------------- values
None == <<>>
Some(v) == <<v>>

ALLOWED_STATUSES ==
  <<"prospect", "qualification", "proposition", "negociation", "gagne", "perdu">>

Includes(seq, v) == \E k \in 1..Len(seq) : seq[k] = v

WhiteSpace == {" ", "\t"}

RECURSIVE TrimStart(_)
TrimStart(s) ==
  IF s # <<>> /\ Head(s) \in WhiteSpace THEN TrimStart(Tail(s)) ELSE s

RECURSIVE TrimEnd(_)
TrimEnd(s) ==
  IF s # <<>> /\ s[Len(s)] \in WhiteSpace
    THEN TrimEnd(SubSeq(s, 1, Len(s) - 1))
    ELSE s

\* (mutant) only the leading whitespace is removed
Trim_StartOnly(s) == TrimStart(s)

Trim(s) == TrimEnd(TrimStart(s))

\* (mutant) the title is tested without trimming it
TitleMissing_NoTrim(title) == title = None \/ title[1] = <<>>

\* !title?.trim()
TitleMissing(title) == title = None \/ Trim(title[1]) = <<>>

\* description?.trim() || null
TrimOrNull(text) ==
  IF text = None \/ Trim(text[1]) = <<>> THEN None ELSE Some(Trim(text[1]))

\* status || "prospect"
FinalStatus(status) ==
  IF status = None \/ status[1] = "" THEN "prospect" ELSE status[1]

\* (mutant) the amount is passed on as received
AmountOrZero_Passthrough(amount) == amount

\* amount ?? 0
AmountOrZero(amount) == IF amount = None THEN Some(0) ELSE amount

\* x || null, for a string field
OrNull(x) == IF x = None \/ x[1] = "" THEN None ELSE x

\* (mutant) POST stores the status without checking it
PostStatusInvalid_Omitted(status) == FALSE

\* POST: !ALLOWED_STATUSES.includes(status || "prospect")
PostStatusInvalid(status) == ~Includes(ALLOWED_STATUSES, FinalStatus(status))

\* (mutant) PUT stores the status without checking it
PutStatusInvalid_Omitted(status) == FALSE

\* PUT: status && !ALLOWED_STATUSES.includes(status)
PutStatusInvalid(status) ==
  status # None /\ status[1] # "" /\ ~Includes(ALLOWED_STATUSES, status[1])

\* (mutant) PATCH tests the status the way PUT does, letting an empty one pass
PatchStatusInvalid_EmptyPasses(status) ==
  status = None \/ (status[1] # "" /\ ~Includes(ALLOWED_STATUSES, status[1]))

\* PATCH: !ALLOWED_STATUSES.includes(status)
PatchStatusInvalid(status) ==
  status = None \/ ~Includes(ALLOWED_STATUSES, status[1])

\* (mutant) only a won deal is stamped
ClosedAtCase_OnlyGagne(status, t) ==
  IF status = "gagne" THEN Some(t) ELSE None

\* CASE WHEN $status IN ('gagne','perdu') THEN now() ELSE NULL END
ClosedAtCase(status, t) ==
  IF status \in {"gagne", "perdu"} THEN Some(t) ELSE None

\* ------------------------------------------------- the schema's part
\* The deals table itself is not in the sources; what an INSERT leaves to the
\* column defaults and the derived column follow the specification's data model.
DefaultProbability == 50
DefaultClosedAt == None
WeightedAmount(amount, probability) ==
  IF amount = None THEN None ELSE Some((amount[1] * probability) \div 100)
\* created_at is stamped by the table at the insert.  Inserts are served one
\* after another, each later than the one before: the stamp is the insert's rank.
CreatedAtStamp(rank) == rank

\* ---------------------------------------------------------------- inputs
ReqIds == 1..MaxId

TitleInputs ==
  {None, Some(<<>>), Some(<<" ">>), Some(<<" ", "a", " ">>), Some(<<"B">>)}

StatusInputs ==
  {None, Some(""), Some("bogus")}
    \cup {Some(ALLOWED_STATUSES[k]) : k \in 1..Len(ALLOWED_STATUSES)}

RestNone ==
  [description |-> None, amount |-> None, contact_id |-> None,
   company_id |-> None, assigned_to |-> None, expected_close_date |-> None]
RestAll ==
  [description |-> Some(<<"e", " ">>), amount |-> Some(1000),
   contact_id |-> Some("c1"), company_id |-> Some("co1"),
   assigned_to |-> Some("u1"), expected_close_date |-> Some("2026-01-31")]
RestSome ==
  [description |-> Some(<<"d">>), amount |-> None, contact_id |-> Some("c2"),
   company_id |-> None, assigned_to |-> Some("u1"), expected_close_date |-> None]
RestFalsy ==
  [description |-> Some(<<" ">>), amount |-> Some(0), contact_id |-> Some(""),
   company_id |-> Some(""), assigned_to |-> Some(""),
   expected_close_date |-> Some("")]
RestInputs == {RestNone, RestAll, RestSome, RestFalsy}

MkBody(title, status, rest) ==
  [title |-> title, status |-> status, description |-> rest.description,
   amount |-> rest.amount, contact_id |-> rest.contact_id,
   company_id |-> rest.company_id, assigned_to |-> rest.assigned_to,
   expected_close_date |-> rest.expected_close_date]

\* The request bodies: every status with a plain title; every title, with the
\* status absent or unknown, the other fields all absent or all given; and every
\* combination of the other fields, with the status absent or terminal.
Bodies ==
  {MkBody(Some(<<" ", "a", " ">>), s, RestNone) : s \in StatusInputs}
    \cup {MkBody(t, s, r) : t \in TitleInputs, s \in {None, Some("bogus")},
                            r \in {RestNone, RestAll}}
    \cup {MkBody(Some(<<"B">>), s, r) : s \in {None, Some("gagne")},
                                        r \in RestInputs}

\* req.query of GET /deals
Queries ==
  [status : {None, Some(""), Some("bogus"), Some("gagne"), Some("prospect")},
   assigned_to : {None, Some("u1")},
   q : {None, Some(<<"A">>), Some(<<"_">>)}]

\* ---------------------------------------------------------------- state
VARIABLES
  deals,    \* the deals table: id -> row, for the ids that have a row
  nextId,   \* the next identifier the table assigns
  now,      \* the database clock, what now() returns
  resp,     \* the HTTP response to the last request, with its route
  inflight, \* the requests being served: handler position and query results
  page      \* the deals page of the frontend: what one browser holds

vars == <<deals, nextId, now, resp, inflight, page>>

\* res.status(code).json({error}) or res.json(row), with the route that answered
Response(op, code, error, row) ==
  [op |-> op, code |-> code, error |-> error, row |-> row]

\* the deals page before it is opened: no token, nothing displayed
NoPage ==
  [at |-> "closed", token |-> None, shown |-> <<>>, stats |-> None,
   error |-> None, asked |-> 0]

\* the handler invocations that may overlap
Procs == 1..MaxProcs

NoQuery == [status |-> None, assigned_to |-> None, q |-> None]

\* ---- requireAuth (server.js).  An Authorization header is absent (None) or
\* a scheme prefix followed by the rest of the header; a token is known by the
\* key that signed it and by whether it has expired.
JWT_SECRET == "dev_secret_change_me"

Token(signedWith, expired) == [signedWith |-> signedWith, expired |-> expired]

Header(scheme, token) == Some([scheme |-> scheme, token |-> token])

\* the header of a logged-in client: jwt.sign(..., JWT_SECRET, { expiresIn: "7d" })
GoodHeader == Header("Bearer ", Some(Token(JWT_SECRET, FALSE)))

\* the headers requireAuth is there to refuse: none, another scheme, "Bearer "
\* with nothing after it, a token signed with another key, an expired token
BadHeaders ==
  {None,
   Header("Basic ", Some(Token(JWT_SECRET, FALSE))),
   Header("Bearer ", None),
   Header("Bearer ", Some(Token("another_key", FALSE))),
   Header("Bearer ", Some(Token(JWT_SECRET, TRUE)))}

\* h.startsWith("Bearer ") ? h.slice(7) : null, with !token for the empty rest
BearerToken(h) ==
  IF h # None /\ h[1].scheme = "Bearer " THEN h[1].token ELSE None

\* (mutant) the token is decoded, its signature and expiry not checked
Verifies_DecodeOnly(token) == TRUE

\* jwt.verify(token, JWT_SECRET) returns instead of throwing
Verifies(token) == token.signedWith = JWT_SECRET /\ ~token.expired

\* requireAuth: the 401 error it answers, or None when it calls next()
RequireAuth(h) ==
  IF BearerToken(h) = None THEN Some("missing token")
  ELSE IF ~Verifies(BearerToken(h)[1]) THEN Some("invalid token")
  ELSE None

\* a request to the router: route, :id, the body or query it carries, and its
\* Authorization header
Request(op, id, status, body, query) ==
  [op |-> op, id |-> id, status |-> status, body |-> body, query |-> query,
   auth |-> GoodHeader]

WithHeader(req, h) == [req EXCEPT !.auth = h]

NoRequest == Request("none", 0, None, MkBody(None, None, RestNone), NoQuery)

\* a handler that has not been invoked
Idle ==
  [pc |-> "idle", req |-> NoRequest, todo |-> <<>>, queries |-> 0,
   got |-> <<>>, wrote |-> 0]

Init ==
  /\ deals = <<>>
  /\ nextId = 1
  /\ now = 0
  /\ resp = Response("none", 0, "", None)
  /\ inflight = [p \in Procs |-> Idle]
  /\ page = NoPage

\* ---------------------------------------------------------------- rows
\* INSERT INTO deals (title, ..., expected_close_date) VALUES (...) RETURNING *
InsertRow(id, body) ==
  [id |-> id,
   title |-> Trim(body.title[1]),
   description |-> TrimOrNull(body.description),
   status |-> FinalStatus(body.status),
   amount |-> AmountOrZero(body.amount),
   probability |-> DefaultProbability,
   weighted_amount |-> WeightedAmount(AmountOrZero(body.amount), DefaultProbability),
   contact_id |-> OrNull(body.contact_id),
   company_id |-> OrNull(body.company_id),
   assigned_to |-> OrNull(body.assigned_to),
   expected_close_date |-> OrNull(body.expected_close_date),
   closed_at |-> DefaultClosedAt,
   created_at |-> CreatedAtStamp(id)]

\* (mutant) a patch: a field the request leaves out keeps its value
PutRow_Coalesce(old, body, t) ==
  [old EXCEPT
     !.title = Trim(body.title[1]),
     !.description =
       IF body.description = None THEN old.description
                                  ELSE TrimOrNull(body.description),
     !.status = FinalStatus(body.status),
     !.amount = AmountOrZero(body.amount),
     !.weighted_amount = WeightedAmount(AmountOrZero(body.amount), old.probability),
     !.contact_id =
       IF body.contact_id = None THEN old.contact_id ELSE OrNull(body.contact_id),
     !.company_id = OrNull(body.company_id),
     !.assigned_to = OrNull(body.assigned_to),
     !.expected_close_date = OrNull(body.expected_close_date),
     !.closed_at = ClosedAtCase(FinalStatus(body.status), t)]

\* (mutant) weighted_amount is a plain column that the UPDATE leaves as stored
PutRow_StaleWeighted(old, body, t) ==
  [old EXCEPT
     !.title = Trim(body.title[1]),
     !.description = TrimOrNull(body.description),
     !.status = FinalStatus(body.status),
     !.amount = AmountOrZero(body.amount),
     !.contact_id = OrNull(body.contact_id),
     !.company_id = OrNull(body.company_id),
     !.assigned_to = OrNull(body.assigned_to),
     !.expected_close_date = OrNull(body.expected_close_date),
     !.closed_at = ClosedAtCase(FinalStatus(body.status), t)]

\* (mutant) a request without a status keeps the stored status
PutRow_KeepStatus(old, body, t) ==
  LET st == IF body.status = None \/ body.status[1] = "" THEN old.status
                                                         ELSE body.status[1]
  IN [old EXCEPT
        !.title = Trim(body.title[1]),
        !.description = TrimOrNull(body.description),
        !.status = st,
        !.amount = AmountOrZero(body.amount),
        !.weighted_amount = WeightedAmount(AmountOrZero(body.amount), old.probability),
        !.contact_id = OrNull(body.contact_id),
        !.company_id = OrNull(body.company_id),
        !.assigned_to = OrNull(body.assigned_to),
        !.expected_close_date = OrNull(body.expected_close_date),
        !.closed_at = ClosedAtCase(st, t)]

\* UPDATE deals SET title = $1, ..., closed_at = CASE ... END
PutRow(old, body, t) ==
  [old EXCEPT
     !.title = Trim(body.title[1]),
     !.description = TrimOrNull(body.description),
     !.status = FinalStatus(body.status),
     !.amount = AmountOrZero(body.amount),
     !.weighted_amount = WeightedAmount(AmountOrZero(body.amount), old.probability),
     !.contact_id = OrNull(body.contact_id),
     !.company_id = OrNull(body.company_id),
     !.assigned_to = OrNull(body.assigned_to),
     !.expected_close_date = OrNull(body.expected_close_date),
     !.closed_at = ClosedAtCase(FinalStatus(body.status), t)]

\* (mutant) the status change goes through the full UPDATE of PUT
PatchRow_ViaPut(old, status, t) ==
  PutRow(old, MkBody(Some(old.title), Some(status), RestNone), t)

\* (mutant) the status change forgets closed_at
PatchRow_StatusOnly(old, status, t) == [old EXCEPT !.status = status]

\* (mutant) a conditional update: a stamp already set is kept
PatchRow_KeepStamp(old, status, t) ==
  [old EXCEPT
     !.status = status,
     !.closed_at = IF status \in {"gagne", "perdu"} /\ old.closed_at # None
                     THEN old.closed_at
                     ELSE ClosedAtCase(status, t)]

\* UPDATE deals SET status = $1, closed_at = CASE ... END
PatchRow(old, status, t) ==
  [old EXCEPT !.status = status, !.closed_at = ClosedAtCase(status, t)]

\* WHERE id = $n: the ids of the rows the statement touches
Matching(table, id) == {i \in DOMAIN table : i = id}

\* the table with the row of id written
WithRow(table, id, row) ==
  [i \in DOMAIN table \cup {id} |-> IF i = id THEN row ELSE table[i]]

\* (mutant) DELETE FROM deals, the WHERE clause lost
WithoutRow_NoWhere(table, id) == <<>>

\* the table without the row of id
WithoutRow(table, id) == [i \in DOMAIN table \ {id} |-> table[i]]

\* ------------------------------------------------------------ GET /deals
\* String.prototype.toLowerCase and SQL LOWER, on the letters the inputs use
LowerChar(c) == CASE c = "A" -> "a" [] c = "B" -> "b" [] OTHER -> c
Lower(s) == [k \in 1..Len(s) |-> LowerChar(s[k])]

\* text LIKE pattern: % matches any run of characters, _ any one character
RECURSIVE Like(_, _)
Like(text, pattern) ==
  IF pattern = <<>> THEN text = <<>>
  ELSE IF Head(pattern) = "%" THEN
    Like(text, Tail(pattern)) \/ (text # <<>> /\ Like(Tail(text), pattern))
  ELSE
    /\ text # <<>>
    /\ Head(pattern) = "_" \/ Head(pattern) = Head(text)
    /\ Like(Tail(text), Tail(pattern))

\* `%${q.toLowerCase()}%`
QPattern(q) == <<"%">> \o Lower(q) \o <<"%">>

\* (mutant) any non-empty status is made a filter
StatusFilterOn_AnyStatus(status) == status # None /\ status[1] # ""

\* if (status && ALLOWED_STATUSES.includes(status)): d.status = $i
StatusFilterOn(status) ==
  status # None /\ status[1] # "" /\ Includes(ALLOWED_STATUSES, status[1])

\* the WHERE clause built from req.query
Where(row, query) ==
  /\ StatusFilterOn(query.status) => row.status = query.status[1]
  /\ (query.assigned_to # None /\ query.assigned_to[1] # "") =>
       row.assigned_to = query.assigned_to
  /\ (query.q # None /\ query.q[1] # <<>>) =>
       Like(Lower(row.title), QPattern(query.q[1]))

\* ORDER BY d.created_at DESC, of the rows of `ids`
RECURSIVE OrderByCreatedDesc(_, _)
OrderByCreatedDesc(table, ids) ==
  IF ids = {} THEN <<>>
  ELSE LET first == CHOOSE i \in ids :
                      \A j \in ids : table[j].created_at <= table[i].created_at
       IN <<table[first]>> \o OrderByCreatedDesc(table, ids \ {first})

\* The tables the deals refer to, as the requests find them: contact c1,
\* company co1 and user u1 have a row; no other identifier has one.
Contacts ==
  [c \in {"c1"} |-> [first_name |-> "Ada", last_name |-> "Lovelace",
                     email |-> "ada@example.org"]]
Companies == [c \in {"co1"} |-> [name |-> "Acme"]]
Users == [u \in {"u1"} |-> [first_name |-> "Grace", last_name |-> "Hopper"]]

\* LEFT JOIN t ON t.id = ref, then column: NULL when ref is NULL or has no row
JoinedColumn(joined, ref, column) ==
  IF ref # None /\ ref[1] \in DOMAIN joined THEN Some(joined[ref[1]][column])
                                             ELSE None

\* d.*, c.first_name, ..., u.last_name AS assigned_last_name
LeftJoin(row) ==
  row @@ [first_name |-> JoinedColumn(Contacts, row.contact_id, "first_name"),
          last_name |-> JoinedColumn(Contacts, row.contact_id, "last_name"),
          contact_email |-> JoinedColumn(Contacts, row.contact_id, "email"),
          company_name |-> JoinedColumn(Companies, row.company_id, "name"),
          assigned_first_name |->
            JoinedColumn(Users, row.assigned_to, "first_name"),
          assigned_last_name |->
            JoinedColumn(Users, row.assigned_to, "last_name")]

\* SELECT d.*, ... FROM deals d LEFT JOIN ... WHERE ... ORDER BY d.created_at DESC
SelectDeals(table, query) ==
  LET rows == OrderByCreatedDesc(table,
                                 {i \in DOMAIN table : Where(table[i], query)})
  IN [k \in 1..Len(rows) |-> LeftJoin(rows[k])]

\* ------------------------------------------------------ GET /deals/stats
\* SUM(column) over the rows of `ids`: NULL when no row has a value
RECURSIVE SqlSum(_, _, _)
SqlSum(table, ids, column) ==
  IF ids = {} THEN None
  ELSE LET i == CHOOSE k \in ids : TRUE
           rest == SqlSum(table, ids \ {i}, column)
       IN IF table[i][column] = None THEN rest
          ELSE IF rest = None THEN table[i][column]
          ELSE Some(table[i][column][1] + rest[1])

\* (mutant) the sum is returned without COALESCE
CoalesceZero_Passthrough(x) == x

\* COALESCE(x, 0)
CoalesceZero(x) == IF x = None THEN Some(0) ELSE x

\* (mutant) a lost deal still counts as active
StatsSummary_ActiveNotWon(table) ==
  [total_deals |-> Cardinality(DOMAIN table),
   total_value |-> CoalesceZero(SqlSum(table, DOMAIN table, "amount")),
   weighted_value |->
     CoalesceZero(SqlSum(table, DOMAIN table, "weighted_amount")),
   won_value |->
     CoalesceZero(SqlSum(table, {i \in DOMAIN table : table[i].status = "gagne"},
                         "amount")),
   active_deals |->
     Cardinality({i \in DOMAIN table : table[i].status # "gagne"})]

\* the summary query
StatsSummary(table) ==
  [total_deals |-> Cardinality(DOMAIN table),
   total_value |-> CoalesceZero(SqlSum(table, DOMAIN table, "amount")),
   weighted_value |->
     CoalesceZero(SqlSum(table, DOMAIN table, "weighted_amount")),
   won_value |->
     CoalesceZero(SqlSum(table, {i \in DOMAIN table : table[i].status = "gagne"},
                         "amount")),
   active_deals |->
     Cardinality({i \in DOMAIN table : table[i].status \notin {"gagne", "perdu"}})]

\* (mutant) the groups come in alphabetical order
FunnelOrder_Alphabetical ==
  <<"gagne", "negociation", "perdu", "proposition", "prospect", "qualification">>

\* ARRAY['prospect', ..., 'perdu'] of the ORDER BY
FunnelOrder ==
  <<"prospect", "qualification", "proposition", "negociation", "gagne", "perdu">>

\* ARRAY_POSITION(array, v); a value the array lacks sorts last, as NULL does
ArrayPosition(array, v) ==
  IF Includes(array, v) THEN CHOOSE k \in 1..Len(array) : array[k] = v
                        ELSE Len(array) + 1

\* ORDER BY ARRAY_POSITION(...), of the groups
RECURSIVE OrderByPosition(_, _)
OrderByPosition(groups, array) ==
  IF groups = {} THEN <<>>
  ELSE LET first == CHOOSE g \in groups :
                      \A h \in groups :
                        ArrayPosition(array, g.status) <= ArrayPosition(array, h.status)
       IN <<first>> \o OrderByPosition(groups \ {first}, array)

\* (mutant) only the open deals are grouped
GroupByStatus_OpenOnly(table) ==
  {[status |-> st,
    count |-> Cardinality({i \in DOMAIN table : table[i].status = st}),
    total |-> CoalesceZero(
                SqlSum(table, {i \in DOMAIN table : table[i].status = st}, "amount"))]
     : st \in {table[i].status : i \in DOMAIN table} \ {"gagne", "perdu"}}

\* SELECT status, COUNT(*), COALESCE(SUM(amount),0) ... GROUP BY status
GroupByStatus(table) ==
  {[status |-> st,
    count |-> Cardinality({i \in DOMAIN table : table[i].status = st}),
    total |-> CoalesceZero(
                SqlSum(table, {i \in DOMAIN table : table[i].status = st}, "amount"))]
     : st \in {table[i].status : i \in DOMAIN table}}

\* the by-status query
StatsByStatus(table) == OrderByPosition(GroupByStatus(table), FunnelOrder)

\* The schema's part again: the identifier the table gives the next inserted row.
AssignedId == nextId

\* --------------------------------------------------------------- handlers
\* What a handler does in the current state: the table and the identifier
\* counter it leaves, and the response it sends.
Outcome(table, next, response) ==
  [deals |-> table, nextId |-> next, resp |-> response]

\* POST /deals
PostDeal(body) ==
  IF TitleMissing(body.title) THEN
    Outcome(deals, nextId, Response("create", 400, "Titre requis", None))
  ELSE IF PostStatusInvalid(body.status) THEN
    Outcome(deals, nextId, Response("create", 400, "Statut invalide", None))
  ELSE
    Outcome(WithRow(deals, AssignedId, InsertRow(AssignedId, body)),
            AssignedId + 1,
            Response("create", 201, "", Some(InsertRow(AssignedId, body))))

\* (mutant) the row is looked up before the request is validated
PutDeal_LookupFirst(id, body) ==
  IF Matching(deals, id) = {} THEN
    Outcome(deals, nextId, Response("update", 404, "Deal introuvable", None))
  ELSE IF TitleMissing(body.title) THEN
    Outcome(deals, nextId, Response("update", 400, "Titre requis", None))
  ELSE IF PutStatusInvalid(body.status) THEN
    Outcome(deals, nextId, Response("update", 400, "Statut invalide", None))
  ELSE
    Outcome(WithRow(deals, id, PutRow(deals[id], body, now)), nextId,
            Response("update", 200, "", Some(PutRow(deals[id], body, now))))

\* PUT /deals/:id
PutDeal(id, body) ==
  IF TitleMissing(body.title) THEN
    Outcome(deals, nextId, Response("update", 400, "Titre requis", None))
  ELSE IF PutStatusInvalid(body.status) THEN
    Outcome(deals, nextId, Response("update", 400, "Statut invalide", None))
  ELSE IF Matching(deals, id) = {} THEN
    Outcome(deals, nextId, Response("update", 404, "Deal introuvable", None))
  ELSE
    Outcome(WithRow(deals, id, PutRow(deals[id], body, now)), nextId,
            Response("update", 200, "", Some(PutRow(deals[id], body, now))))

\* PATCH /deals/:id/status
PatchStatus(id, status) ==
  IF PatchStatusInvalid(status) THEN
    Outcome(deals, nextId,
            Response("transitionStatus", 400, "Statut invalide", None))
  ELSE IF Matching(deals, id) = {} THEN
    Outcome(deals, nextId,
            Response("transitionStatus", 404, "Deal introuvable", None))
  ELSE
    Outcome(WithRow(deals, id, PatchRow(deals[id], status[1], now)), nextId,
            Response("transitionStatus", 200, "",
                     Some(PatchRow(deals[id], status[1], now))))

\* DELETE /deals/:id
DeleteDeal(id) ==
  IF Matching(deals, id) = {} THEN
    Outcome(deals, nextId, Response("delete", 404, "Deal introuvable", None))
  ELSE
    Outcome(WithoutRow(deals, id), nextId, Response("delete", 200, "", None))

\* (mutant) GET answers without testing rowCount
GetDeal_NoRowCheck(id) ==
  Outcome(deals, nextId, Response("get", 200, "", None))

\* (mutant) the joins are inner joins: a deal with a reference that has no
\* row is not found
GetDeal_InnerJoin(id) ==
  IF Matching(deals, id) = {}
       \/ JoinedColumn(Contacts, deals[id].contact_id, "email") = None
       \/ JoinedColumn(Companies, deals[id].company_id, "name") = None
       \/ JoinedColumn(Users, deals[id].assigned_to, "last_name") = None
  THEN
    Outcome(deals, nextId, Response("get", 404, "Deal introuvable", None))
  ELSE
    Outcome(deals, nextId, Response("get", 200, "", Some(LeftJoin(deals[id]))))

\* GET /deals/:id
GetDeal(id) ==
  IF Matching(deals, id) = {} THEN
    Outcome(deals, nextId, Response("get", 404, "Deal introuvable", None))
  ELSE
    Outcome(deals, nextId, Response("get", 200, "", Some(LeftJoin(deals[id]))))

\* GET /deals
ListDeals(query) ==
  Outcome(deals, nextId, Response("list", 200, "", Some(SelectDeals(deals, query))))

\* GET /deals/stats
GetStats ==
  Outcome(deals, nextId,
          Response("stats", 200, "",
                   Some([summary |-> StatsSummary(deals),
                         by_status |-> StatsByStatus(deals)])))

\* ---------------------------------------------------------------- actions
\* A request is served in one step: the handler's outcome becomes the state.
Serve(out) ==
  /\ deals' = out.deals
  /\ nextId' = out.nextId
  /\ resp' = out.resp
  /\ UNCHANGED <<now, inflight, page>>

Tick ==
  /\ now < MaxTime
  /\ now' = now + 1
  /\ UNCHANGED <<deals, nextId, resp, inflight, page>>

\* the table assigns identifiers up to MaxId
Create(body) ==
  LET out == PostDeal(body) IN
    /\ out.nextId <= MaxId + 1
    /\ Serve(out)

Update(id, body) == Serve(PutDeal(id, body))

TransitionStatus(id, status) == Serve(PatchStatus(id, status))

Delete(id) == Serve(DeleteDeal(id))

Get(id) == Serve(GetDeal(id))

List(query) == Serve(ListDeals(query))

Stats == Serve(GetStats)

Next ==
  \/ Tick
  \/ \E body \in Bodies : Create(body)
  \/ \E id \in ReqIds, body \in Bodies : Update(id, body)
  \/ \E id \in ReqIds, status \in StatusInputs : TransitionStatus(id, status)
  \/ \E id \in ReqIds : Delete(id)
  \/ \E id \in ReqIds : Get(id)
  \/ \E query \in Queries : List(query)
  \/ Stats

Spec == Init /\ [][Next]_vars

\* ------------------------------------------------- overlapping requests
\* The handlers are async functions: one runs from its invocation to its first
\* await without interruption, then each `await pool.query(...)` is a point
\* where other handlers run.  The database executes one statement atomically.

\* the columns each UPDATE sets
PatchColumns == {"status", "closed_at"}
PutColumns ==
  {"title", "description", "status", "amount", "weighted_amount", "contact_id",
   "company_id", "assigned_to", "expected_close_date", "closed_at"}

Statement(sql, cols) == [sql |-> sql, cols |-> cols]

\* (mutant) status and closed_at are written by two statements
PatchStatements_Split ==
  <<Statement("patch", {"status"}), Statement("patch", {"closed_at"})>>

\* the pool.query calls of PATCH /deals/:id/status
PatchStatements == <<Statement("patch", PatchColumns)>>

\* the pool.query calls of GET /deals/stats
StatsStatements == <<Statement("summary", {}), Statement("by_status", {})>>

\* the pool.query calls of a handler, in order
Statements(req) ==
  CASE req.op = "transitionStatus" -> PatchStatements
    [] req.op = "update" -> <<Statement("put", PutColumns)>>
    [] req.op = "stats" -> StatsStatements
    [] OTHER -> <<Statement(req.op, {})>>

\* (mutant) the handlers query before they validate
Rejected_Never(req) == FALSE

\* the validation that answers 400 before any query
Rejected(req) ==
  CASE req.op = "create" ->
         TitleMissing(req.body.title) \/ PostStatusInvalid(req.body.status)
    [] req.op = "update" ->
         TitleMissing(req.body.title) \/ PutStatusInvalid(req.body.status)
    [] req.op = "transitionStatus" -> PatchStatusInvalid(req.status)
    [] OTHER -> FALSE

\* the handler of a request, run on the current table in one piece
Handler(req) ==
  CASE req.op = "create" -> PostDeal(req.body)
    [] req.op = "update" -> PutDeal(req.id, req.body)
    [] req.op = "transitionStatus" -> PatchStatus(req.id, req.status)
    [] req.op = "delete" -> DeleteDeal(req.id)
    [] req.op = "get" -> GetDeal(req.id)
    [] req.op = "list" -> ListDeals(req.query)
    [] req.op = "stats" -> GetStats

\* an UPDATE ... RETURNING * that sets only the columns `cols`
WriteCols(old, new, cols) ==
  [c \in DOMAIN old |-> IF c \in cols THEN new[c] ELSE old[c]]

Written(out, id, cols) ==
  IF out.resp.code # 200 THEN out
  ELSE LET row == WriteCols(deals[id], out.resp.row[1], cols)
       IN Outcome(WithRow(deals, id, row), nextId,
                  [out.resp EXCEPT !.row = Some(row)])

\* one pool.query of the handler of req, executed on the current table
Exec(stmt, req) ==
  CASE stmt.sql = "patch" ->
         Written(PatchStatus(req.id, req.status), req.id, stmt.cols)
    [] stmt.sql = "put" -> Written(PutDeal(req.id, req.body), req.id, stmt.cols)
    [] stmt.sql = "summary" ->
         Outcome(deals, nextId, Response("stats", 200, "", Some(StatsSummary(deals))))
    [] stmt.sql = "by_status" ->
         Outcome(deals, nextId, Response("stats", 200, "", Some(StatsByStatus(deals))))
    [] OTHER -> Handler(req)

Succeeded(response) == response.code \in {200, 201}

\* (mutant) the answer's total_deals is recounted from the by-status rows
Reply_Recounted(req, got) ==
  IF req.op = "stats" /\ Len(got) = 2 /\ got[2].code = 200
    THEN LET counts == [k \in 1..Len(got[2].row[1]) |-> got[2].row[1][k].count]
             total == IF counts = <<>> THEN 0
                      ELSE IF Len(counts) = 1 THEN counts[1]
                      ELSE counts[1] + counts[2]
         IN Response("stats", 200, "",
                     Some([summary |-> [got[1].row[1] EXCEPT !.total_deals = total],
                           by_status |-> got[2].row[1]]))
    ELSE got[Len(got)]

\* res.json(...) from the results of the handler's queries
Reply(req, got) ==
  IF req.op = "stats" /\ Len(got) = 2 /\ Succeeded(got[2])
    THEN Response("stats", 200, "",
                  Some([summary |-> got[1].row[1], by_status |-> got[2].row[1]]))
    ELSE got[Len(got)]

\* the order of the writes to the table
WriteCount ==
  LET stamps == {inflight[p].wrote : p \in Procs}
  IN CHOOSE n \in stamps : \A m \in stamps : m <= n

\* the requests that arrive
ConcRequests ==
  {Request("transitionStatus", 1, Some(st), NoRequest.body, NoQuery)
     : st \in {"gagne", "perdu", "prospect", "bogus"}}
    \cup {Request("transitionStatus", MaxId, Some("gagne"), NoRequest.body, NoQuery)}
    \cup {Request("update", 1, None, body, NoQuery)
            : body \in {MkBody(Some(<<"B">>), Some("gagne"), RestAll),
                        MkBody(Some(<<"B">>), None, RestNone),
                        MkBody(None, None, RestNone)}}
    \cup {Request("create", 0, None, MkBody(Some(<<"B">>), None, RestAll), NoQuery),
          Request("delete", 1, None, NoRequest.body, NoQuery),
          Request("get", 1, None, NoRequest.body, NoQuery),
          Request("list", 0, None, NoRequest.body, NoQuery),
          Request("stats", 0, None, NoRequest.body, NoQuery)}

\* the requests of clients that are not logged in: every route without a
\* header, and one route with each header that requireAuth refuses
RouteSamples ==
  {Request("transitionStatus", 1, Some("gagne"), NoRequest.body, NoQuery),
   Request("update", 1, None, MkBody(Some(<<"B">>), Some("gagne"), RestAll), NoQuery),
   Request("create", 0, None, MkBody(Some(<<"B">>), None, RestAll), NoQuery),
   Request("delete", 1, None, NoRequest.body, NoQuery),
   Request("get", 1, None, NoRequest.body, NoQuery),
   Request("list", 0, None, NoRequest.body, NoQuery),
   Request("stats", 0, None, NoRequest.body, NoQuery)}

DeniedRequests ==
  {WithHeader(req, None) : req \in RouteSamples}
    \cup {WithHeader(Request("delete", 1, None, NoRequest.body, NoQuery), h)
            : h \in BadHeaders}

\* the table holds one deal, created before the requests arrive
ConcInit ==
  /\ \E rest \in {RestNone, RestAll} :
       deals = WithRow(<<>>, 1, InsertRow(1, MkBody(Some(<<"B">>), None, rest)))
  /\ nextId = 2
  /\ now = 0
  /\ resp = Response("none", 0, "", None)
  /\ inflight = [p \in Procs |-> Idle]
  /\ page = NoPage

\* requireAuth answers 401 and does not call next(): no handler is invoked
Refuse(req) ==
  /\ RequireAuth(req.auth) # None
  /\ resp' = Response(req.op, 401, RequireAuth(req.auth)[1], None)
  /\ UNCHANGED <<deals, nextId, now, inflight, page>>

\* requireAuth calls next() and the router invokes the handler: validation,
\* then either the 400 response or the first query is issued
Receive(p, req) ==
  /\ inflight[p].pc = "idle"
  /\ RequireAuth(req.auth) = None
  /\ IF Rejected(req)
       THEN /\ inflight' = [inflight EXCEPT
                 ![p] = [Idle EXCEPT !.pc = "done", !.req = req,
                                     !.got = <<Handler(req).resp>>]]
            /\ resp' = Handler(req).resp
       ELSE /\ inflight' = [inflight EXCEPT
                 ![p] = [Idle EXCEPT !.pc = "query", !.req = req,
                                     !.todo = Statements(req)]]
            /\ UNCHANGED resp
  /\ UNCHANGED <<deals, nextId, now, page>>

\* the database executes the pending query of p
Query(p) ==
  LET me == inflight[p]
      stmt == Head(me.todo)
      out == Exec(stmt, me.req)
      rest == IF Succeeded(out.resp) THEN Tail(me.todo) ELSE <<>>
  IN /\ me.pc = "query"
     /\ out.nextId <= MaxId + 1
     /\ deals' = out.deals
     /\ nextId' = out.nextId
     /\ inflight' = [inflight EXCEPT
          ![p] = [me EXCEPT
                    !.pc = IF rest = <<>> THEN "respond" ELSE "query",
                    !.todo = rest,
                    !.queries = me.queries + 1,
                    !.got = Append(me.got, out.resp),
                    !.wrote = IF stmt.cols # {} /\ Succeeded(out.resp)
                                THEN WriteCount + 1 ELSE me.wrote]]
     /\ UNCHANGED <<now, resp, page>>

\* (mutant) the query throws after the database has applied it
QueryFails_AfterWrite(p) ==
  LET me == inflight[p]
      out == Exec(Head(me.todo), me.req)
  IN /\ me.pc = "query"
     /\ out.nextId <= MaxId + 1
     /\ deals' = out.deals
     /\ nextId' = out.nextId
     /\ inflight' = [inflight EXCEPT
          ![p] = [me EXCEPT
                    !.pc = "respond",
                    !.todo = <<>>,
                    !.queries = me.queries + 1,
                    !.got = Append(me.got,
                                   Response(me.req.op, 500, "e.message", None))]]
     /\ UNCHANGED <<now, resp, page>>

\* the pending query of p throws: catch (e) answers 500
QueryFails(p) ==
  LET me == inflight[p] IN
    /\ me.pc = "query"
    /\ inflight' = [inflight EXCEPT
         ![p] = [me EXCEPT
                   !.pc = "respond",
                   !.todo = <<>>,
                   !.queries = me.queries + 1,
                   !.got = Append(me.got, Response(me.req.op, 500, "e.message", None))]]
    /\ UNCHANGED <<deals, nextId, now, resp, page>>

\* the handler resumes after its last query and answers
Respond(p) ==
  /\ inflight[p].pc = "respond"
  /\ resp' = Reply(inflight[p].req, inflight[p].got)
  /\ inflight' = [inflight EXCEPT ![p].pc = "done"]
  /\ UNCHANGED <<deals, nextId, now, page>>

ConcNext ==
  \/ Tick
  \/ \E req \in ConcRequests \cup DeniedRequests : Refuse(req)
  \/ \E p \in Procs, req \in ConcRequests \cup DeniedRequests : Receive(p, req)
  \/ \E p \in Procs : Query(p)
  \/ \E p \in Procs : QueryFails(p)
  \/ \E p \in Procs : Respond(p)

ConcSpec == ConcInit /\ [][ConcNext]_vars

\* ------------------------------------------------------- the deals page
\* The page of the frontend (deals page.tsx) in one browser, in front of the
\* same backend.  The page holds the token of localStorage, the deals and the
\* stats it displays, and its error banner.  A click is served in one step,
\* the backend's answer included; other clients create and delete deals
\* through the API in between.

\* what can go wrong with a fetch: nothing, the backend's query throws (500),
\* the request never reaches the backend, or its response never comes back
Faults == {"none", "query throws", "fetch throws", "response lost"}

\* the tokens localStorage may hold: none, a valid one, an expired one
PageTokens == {None, Some(Token(JWT_SECRET, FALSE)), Some(Token(JWT_SECRET, TRUE))}

\* the deals other clients create while the page is open
PageBodies ==
  {MkBody(Some(<<"B">>), None, RestAll), MkBody(Some(<<"B">>), Some("gagne"), RestSome)}

ShownIds == {page.shown[k].id : k \in 1..Len(page.shown)}

\* the backend's answer to a request of the page, with the store it leaves
Backend(token, fault, op, out) ==
  IF RequireAuth(Header("Bearer ", token)) # None
    THEN Outcome(deals, nextId,
                 Response(op, 401, RequireAuth(Header("Bearer ", token))[1], None))
  ELSE IF fault = "query throws"
    THEN Outcome(deals, nextId, Response(op, 500, "e.message", None))
  ELSE out

\* res.ok
Ok(response) == response.code \in {200, 201}

\* (mutant) the deal is taken off the list only when the response is ok
ShownAfterDelete_IfOk(shown, id, response) ==
  IF Ok(response) THEN SelectSeq(shown, LAMBDA d : d.id # id) ELSE shown

\* setDeals(prev => prev.filter(d => d.id !== id)), whatever the response
ShownAfterDelete(shown, id, response) == SelectSeq(shown, LAMBDA d : d.id # id)

\* loadStats on the table `table`: if (res.ok) setStats(await res.json())
StatsLoaded(token, table, stats) ==
  IF RequireAuth(Header("Bearer ", token)) # None THEN stats
  ELSE Some([summary |-> StatsSummary(table), by_status |-> StatsByStatus(table)])

\* what a click leaves: the page, the store, the last response
Click(newPage, out) ==
  [page |-> newPage, deals |-> out.deals, nextId |-> out.nextId, resp |-> out.resp]

\* onDelete(id)
OnDeleteOutcome(id, confirmed, fault) ==
  IF ~confirmed THEN Click(page, Outcome(deals, nextId, resp))
  ELSE IF page.token = None
    THEN Click([page EXCEPT !.at = "login"], Outcome(deals, nextId, resp))
  ELSE IF fault = "fetch throws"
    THEN Click([page EXCEPT !.asked = id], Outcome(deals, nextId, resp))
  ELSE
    LET out == Backend(page.token, fault, "delete", DeleteDeal(id)) IN
      IF fault = "response lost"
        THEN Click([page EXCEPT !.asked = id], out)
        ELSE Click([page EXCEPT
                      !.asked = id,
                      !.shown = ShownAfterDelete(page.shown, id, out.resp),
                      !.stats = StatsLoaded(page.token, out.deals, page.stats)],
                   out)

\* loadDeals(), with no filter set
LoadDealsOutcome(fault) ==
  IF page.token = None
    THEN Click([page EXCEPT !.at = "login", !.error = None],
               Outcome(deals, nextId, resp))
  ELSE IF fault \in {"fetch throws", "response lost"}
    THEN Click([page EXCEPT !.error = Some("Failed to fetch")],
               Outcome(deals, nextId, resp))
  ELSE
    LET out == Backend(page.token, fault, "list", ListDeals(NoQuery)) IN
      IF Ok(out.resp)
        THEN Click([page EXCEPT !.error = None, !.shown = out.resp.row[1]], out)
        ELSE Click([page EXCEPT !.error = Some(out.resp.error)], out)

Clicked(click) ==
  /\ page' = click.page
  /\ deals' = click.deals
  /\ nextId' = click.nextId
  /\ resp' = click.resp
  /\ UNCHANGED <<now, inflight>>

\* the user opens the page with what localStorage holds
PageInit ==
  /\ deals = <<>>
  /\ nextId = 1
  /\ now = 0
  /\ resp = Response("none", 0, "", None)
  /\ inflight = [p \in Procs |-> Idle]
  /\ \E token \in PageTokens : page = [NoPage EXCEPT !.at = "deals", !.token = token]

OnDelete(id, confirmed, fault) ==
  /\ page.at = "deals"
  /\ id \in ShownIds
  /\ Clicked(OnDeleteOutcome(id, confirmed, fault))

LoadDeals(fault) ==
  /\ page.at = "deals"
  /\ Clicked(LoadDealsOutcome(fault))

PageNext ==
  \/ \E body \in PageBodies : Create(body)
  \/ \E id \in ReqIds : Delete(id)
  \/ \E fault \in Faults : LoadDeals(fault)
  \/ \E id \in ReqIds, confirmed \in BOOLEAN, fault \in Faults :
       OnDelete(id, confirmed, fault)

PageSpec == PageInit /\ [][PageNext]_vars

\* ================================================================ claims
\* The vocabulary of the claims, written out on its own.
Terminal == {"gagne", "perdu"}
SixStatuses ==
  {"prospect", "qualification", "proposition", "negociation", "gagne", "perdu"}

\* a title that is absent, empty or made only of whitespace
BlankTitle(title) ==
  title = None \/ \A k \in 1..Len(title[1]) : title[1][k] \in {" ", "\t"}

\* a status outside the six allowed values: unknown, empty or absent
NotAStatus(status) == status = None \/ status[1] \notin SixStatuses

\* the store an outcome leaves is the store it found
StoreUntouched(out) == out.deals = deals /\ out.nextId = nextId

\* the response is the failure `error` with HTTP status `code`
Fails(out, code, error) ==
  out.resp.code = code /\ out.resp.error = error /\ out.resp.row = None

\* C1: every stored deal has closed_at non-null if and only if its status is
\* gagne or perdu, after any sequence of create, update, transitionStatus and
\* delete (create with an explicit status included).
C1_ClosedAtIffTerminal ==
  \A i \in DOMAIN deals :
    (deals[i].closed_at # None) <=> (deals[i].status \in Terminal)

\* C2: in every reachable state, a successful transitionStatus(id, s) or
\* update(id, ..., status = s) with s one of the six statuses leaves deal id with
\* status s and with closed_at the current timestamp when s is gagne or perdu
\* and null otherwise, whatever the deal held before.
StatusWritten(out, id, s) ==
  /\ id \in DOMAIN out.deals
  /\ out.deals[id].status = s
  /\ out.deals[id].closed_at = (IF s \in Terminal THEN Some(now) ELSE None)

C2_StatusWriteDerivesClosedAt ==
  \A id \in DOMAIN deals, s \in SixStatuses :
    /\ LET out == PatchStatus(id, Some(s)) IN
         out.resp.code = 200 /\ StatusWritten(out, id, s)
    /\ \A body \in Bodies :
         LET out == PutDeal(id, body) IN
           (body.status = Some(s) /\ out.resp.code = 200) =>
             StatusWritten(out, id, s)

\* C2 witness: a deal was just moved to perdu at time 1 and carries that time,
\* while another deal, closed earlier, still carries time 0.
C2_Witness ==
  /\ resp.op = "transitionStatus" /\ resp.code = 200
  /\ resp.row # None
  /\ resp.row[1].status = "perdu" /\ resp.row[1].closed_at = Some(1)
  /\ now = 1
  /\ \E j \in DOMAIN deals : deals[j].closed_at = Some(0)

\* C3: a successful transitionStatus(id, s) changes only status and closed_at of
\* deal id; its other fields and every other stored deal are unchanged.
FrameFields ==
  {"id", "title", "description", "amount", "probability", "weighted_amount",
   "contact_id", "company_id", "assigned_to", "expected_close_date"}

C3_TransitionFrame ==
  \A id \in ReqIds, s \in StatusInputs :
    LET out == PatchStatus(id, s) IN
      out.resp.code = 200 =>
        /\ DOMAIN out.deals = DOMAIN deals
        /\ \A f \in FrameFields : out.deals[id][f] = deals[id][f]
        /\ \A j \in DOMAIN deals \ {id} : out.deals[j] = deals[j]
        /\ out.nextId = nextId

\* C3 witness: a transition succeeded on a deal that has every other field set,
\* with a second deal in the store.
C3_Witness ==
  /\ resp.op = "transitionStatus" /\ resp.code = 200
  /\ resp.row # None
  /\ resp.row[1].status = "negociation"
  /\ resp.row[1].description # None /\ resp.row[1].amount = Some(1000)
  /\ resp.row[1].contact_id # None /\ resp.row[1].company_id # None
  /\ resp.row[1].assigned_to # None /\ resp.row[1].expected_close_date # None
  /\ Cardinality(DOMAIN deals) = 2

\* C4: transitionStatus(id, s) with s unknown, empty or absent fails with
\* InvalidStatus (400 "Statut invalide") and leaves the whole store unchanged.
C4_InvalidTransitionRejected ==
  \A id \in ReqIds, s \in StatusInputs :
    LET out == PatchStatus(id, s) IN
      NotAStatus(s) =>
        Fails(out, 400, "Statut invalide") /\ StoreUntouched(out)

\* C4 witness: an invalid transition was just rejected while deals are stored.
C4_Witness ==
  /\ resp.op = "transitionStatus" /\ resp.code = 400
  /\ resp.error = "Statut invalide"
  /\ Cardinality(DOMAIN deals) = 2

\* C5: create with a title that is absent, empty or only whitespace fails with
\* ValidationError (400 "Titre requis") and adds no deal, whatever the other
\* fields of the request are.
C5_BlankTitleRejected ==
  \A body \in Bodies :
    LET out == PostDeal(body) IN
      BlankTitle(body.title) =>
        Fails(out, 400, "Titre requis") /\ StoreUntouched(out)

\* C5 witness: a create was just rejected for its title while the table could
\* still take a deal.
C5_Witness ==
  /\ resp.op = "create" /\ resp.code = 400 /\ resp.error = "Titre requis"
  /\ nextId <= MaxId

\* C6 as claimed: create with a valid title and a status that is given and is
\* not one of the six allowed values fails with InvalidStatus (400 "Statut
\* invalide") and adds no deal.
C6_GivenUnknownStatusRejected ==
  [][\A body \in Bodies :
       (~BlankTitle(body.title) /\ body.status # None
          /\ body.status[1] \notin SixStatuses /\ Create(body)) =>
         /\ resp'.code = 400 /\ resp'.error = "Statut invalide"
         /\ deals' = deals
    ]_vars

\* C6: create with a valid title and a non-empty status that is not one of the
\* six allowed values fails with InvalidStatus (400 "Statut invalide") and adds
\* no deal.
C6_UnknownStatusRejected ==
  \A body \in Bodies :
    LET out == PostDeal(body) IN
      (~BlankTitle(body.title) /\ body.status # None /\ body.status[1] # ""
         /\ body.status[1] \notin SixStatuses) =>
        Fails(out, 400, "Statut invalide") /\ StoreUntouched(out)

\* C6 witness: a create was just rejected for its status while the table could
\* still take a deal.
C6_Witness ==
  /\ resp.op = "create" /\ resp.code = 400 /\ resp.error = "Statut invalide"
  /\ nextId <= MaxId

\* C7: a successful create adds exactly one new deal and returns it in full;
\* its status is the supplied valid status, or prospect when none is supplied;
\* its amount is the supplied amount, or 0 when none is supplied; its closed_at
\* is null; every deal that existed before is unchanged.
C7_CreateAddsOneDeal ==
  \A body \in Bodies :
    LET out == PostDeal(body) IN
      out.resp.code = 201 =>
        /\ DOMAIN deals \subseteq DOMAIN out.deals
        /\ Cardinality(DOMAIN out.deals \ DOMAIN deals) = 1
        /\ \A j \in DOMAIN deals : out.deals[j] = deals[j]
        /\ \A new \in DOMAIN out.deals \ DOMAIN deals :
             /\ out.resp.row = Some(out.deals[new])
             /\ out.deals[new].id = new
             /\ body.status = None => out.deals[new].status = "prospect"
             /\ (body.status # None /\ body.status[1] \in SixStatuses) =>
                  out.deals[new].status = body.status[1]
             /\ body.amount = None => out.deals[new].amount = Some(0)
             /\ body.amount # None => out.deals[new].amount = body.amount
             /\ out.deals[new].closed_at = None

\* C7 witness: a create without status or amount just succeeded next to an
\* older deal that is closed.
C7_Witness ==
  /\ resp.op = "create" /\ resp.code = 201
  /\ resp.row # None
  /\ resp.row[1].status = "prospect" /\ resp.row[1].amount = Some(0)
  /\ \E j \in DOMAIN deals : j # resp.row[1].id /\ deals[j].closed_at # None

\* C8: the status of every stored deal is one of the six allowed values, after
\* any sequence of operations with valid or invalid status arguments.
C8_StoredStatusAllowed ==
  \A i \in DOMAIN deals : deals[i].status \in SixStatuses

\* C8 witness: an update with an unknown status was just refused while two
\* deals of different statuses are stored.
C8_Witness ==
  /\ resp.op = "update" /\ resp.code = 400 /\ resp.error = "Statut invalide"
  /\ \E i, j \in DOMAIN deals : deals[i].status # deals[j].status

\* The request fields update may leave out, and those among them whose column
\* holds text that the handler trims.
OptionalFields ==
  {"description", "amount", "contact_id", "company_id", "assigned_to",
   "expected_close_date"}
ReferenceFields ==
  {"contact_id", "company_id", "assigned_to", "expected_close_date"}

\* x is s without its leading and trailing whitespace
IsTrimOf(x, s) ==
  /\ x = <<>> \/ (x[1] \notin {" ", "\t"} /\ x[Len(x)] \notin {" ", "\t"})
  /\ \E a \in 0..Len(s) :
       /\ a + Len(x) <= Len(s)
       /\ SubSeq(s, a + 1, a + Len(x)) = x
       /\ \A k \in (1..a) \cup ((a + Len(x) + 1)..Len(s)) : s[k] \in {" ", "\t"}

\* C9 as claimed: after a successful update(id, ...), every optional field the
\* request does not supply is null, every supplied field holds the supplied
\* value, and no other deal is changed.
C9_FullReplaceAsClaimed ==
  [][\A id \in ReqIds, body \in Bodies :
       (Update(id, body) /\ resp'.code = 200) =>
         /\ \A f \in OptionalFields :
              IF body[f] = None THEN deals'[id][f] = None
                                ELSE deals'[id][f] = body[f]
         /\ deals'[id].title = body.title[1]
         /\ body.status # None => deals'[id].status = body.status[1]
         /\ \A j \in DOMAIN deals \ {id} : deals'[j] = deals[j]
    ]_vars

\* C9: after a successful update(id, ...), nothing of what the deal held before
\* in a request field is retained.  A field the request does not supply is null
\* (description, contact_id, company_id, assigned_to, expected_close_date),
\* prospect (status) or 0 (amount).  A supplied field holds the supplied value:
\* title and description trimmed, and an empty status, reference or date, or a
\* whitespace-only description, counted as not supplied.  No other deal is
\* changed.
C9_FullReplace ==
  \A id \in ReqIds, body \in Bodies :
    LET out == PutDeal(id, body) IN
      out.resp.code = 200 =>
        LET row == out.deals[id] IN
          /\ DOMAIN out.deals = DOMAIN deals
          /\ out.resp.row = Some(row)
          /\ IsTrimOf(row.title, body.title[1])
          /\ IF body.description = None \/ BlankTitle(body.description)
               THEN row.description = None
               ELSE /\ row.description # None
                    /\ IsTrimOf(row.description[1], body.description[1])
          /\ row.status =
               (IF body.status \in {None, Some("")} THEN "prospect"
                                                    ELSE body.status[1])
          /\ row.amount = (IF body.amount = None THEN Some(0) ELSE body.amount)
          /\ \A f \in ReferenceFields :
               row[f] = (IF body[f] \in {None, Some("")} THEN None ELSE body[f])
          /\ \A j \in DOMAIN deals \ {id} : out.deals[j] = deals[j]

\* C9 witness: an update that supplied only a title just succeeded, leaving its
\* deal with every optional field null, amount 0 and status prospect, next to a
\* deal that has every field set.
C9_Witness ==
  /\ resp.op = "update" /\ resp.code = 200
  /\ resp.row # None
  /\ resp.row[1].status = "prospect" /\ resp.row[1].amount = Some(0)
  /\ \A f \in ReferenceFields \cup {"description"} : resp.row[1][f] = None
  /\ \E j \in DOMAIN deals :
       /\ j # resp.row[1].id
       /\ \A f \in OptionalFields : deals[j][f] # None

\* C10: update, transitionStatus and get, called with otherwise valid arguments
\* on an id that is not in the store, fail with NotFound (404 "Deal
\* introuvable") and leave the store unchanged.
C10_AbsentIdNotFound ==
  \A id \in ReqIds \ DOMAIN deals :
    /\ \A body \in Bodies :
         LET out == PutDeal(id, body) IN
           (~BlankTitle(body.title) /\ ~NotAStatus(body.status)) =>
             Fails(out, 404, "Deal introuvable") /\ StoreUntouched(out)
    /\ \A s \in SixStatuses :
         LET out == PatchStatus(id, Some(s)) IN
           Fails(out, 404, "Deal introuvable") /\ StoreUntouched(out)
    /\ LET out == GetDeal(id) IN
         Fails(out, 404, "Deal introuvable") /\ StoreUntouched(out)

\* C10 witness: an update just answered 404 for a deleted id while another
\* deal is stored.
C10_Witness ==
  /\ resp.op = "update" /\ resp.code = 404
  /\ nextId = MaxId + 1
  /\ Cardinality(DOMAIN deals) = 1

\* C11: delete(id) on an absent id fails with NotFound and leaves the store
\* unchanged; on an existing id it removes exactly that deal; and the removal
\* is permanent: an id that was deleted never has a row again, get, update,
\* transitionStatus and delete on it fail with NotFound, and no list or stats
\* result holds the deal.
Gone == (1..(nextId - 1)) \ DOMAIN deals

DeleteRemovesOne ==
  \A id \in ReqIds :
    LET out == DeleteDeal(id) IN
      IF id \in DOMAIN deals
        THEN /\ out.resp.code = 200
             /\ DOMAIN out.deals = DOMAIN deals \ {id}
             /\ \A j \in DOMAIN out.deals : out.deals[j] = deals[j]
             /\ out.nextId = nextId
        ELSE Fails(out, 404, "Deal introuvable") /\ StoreUntouched(out)

GoneIsNotFound ==
  \A id \in Gone :
    /\ Fails(GetDeal(id), 404, "Deal introuvable")
    /\ Fails(DeleteDeal(id), 404, "Deal introuvable")
    /\ \A s \in SixStatuses :
         Fails(PatchStatus(id, Some(s)), 404, "Deal introuvable")
    /\ \A body \in Bodies : PutDeal(id, body).resp.code \in {400, 404}
    /\ \A query \in Queries :
         LET rows == ListDeals(query).resp.row[1] IN
           \A k \in 1..Len(rows) : rows[k].id # id
    /\ GetStats.resp.row[1].summary.total_deals = Cardinality(DOMAIN deals)

C11_DeleteIsPermanent ==
  /\ [](DeleteRemovesOne /\ GoneIsNotFound)
  /\ [][\A id \in Gone : id \notin DOMAIN deals']_vars

\* C11 witness: with every identifier assigned and one deal deleted, a second
\* delete was just answered 404 while the other deal is still stored.
C11_Witness ==
  /\ resp.op = "delete" /\ resp.code = 404
  /\ nextId = MaxId + 1
  /\ Cardinality(DOMAIN deals) = 1

\* C12: a status filter whose value is not one of the six allowed statuses is
\* ignored: the list succeeds and returns the same deals in the same order as
\* the list without a status filter, the other filters of the request still
\* applying.
C12_InvalidStatusFilterIgnored ==
  \A query \in Queries :
    (query.status # None /\ query.status[1] \notin SixStatuses) =>
      LET out == ListDeals(query)
          plain == ListDeals([query EXCEPT !.status = None])
          rows == out.resp.row[1]
      IN /\ out.resp.code = 200 /\ out.resp.error = ""
         /\ out.resp.row = plain.resp.row
         /\ \A k \in 1..Len(rows) :
              query.assigned_to # None => rows[k].assigned_to = query.assigned_to
         /\ (query.assigned_to = None /\ query.q = None) =>
              Len(rows) = Cardinality(DOMAIN deals)

\* C12 witness: a list just returned two deals of different statuses, which no
\* status filter that took effect allows.
C12_Witness ==
  /\ resp.op = "list" /\ resp.code = 200
  /\ Len(resp.row[1]) = 2
  /\ resp.row[1][1].status # resp.row[1][2].status

\* C13: list returns exactly the stored deals that satisfy every supplied
\* filter (status equal to a valid status filter, assigned_to equal to the
\* filter, title containing q whatever the case), each once, latest created
\* first; no match gives an empty list with no error; the store is unchanged.
Contains(text, part) ==
  \E k \in 0..(Len(text) - Len(part)) : SubSeq(text, k + 1, k + Len(part)) = part

Satisfies(row, query) ==
  /\ (query.status # None /\ query.status[1] \in SixStatuses) =>
       row.status = query.status[1]
  /\ query.assigned_to # None => row.assigned_to = query.assigned_to
  /\ query.q # None => Contains(Lower(row.title), Lower(query.q[1]))

C13_ListExactlyMatching ==
  \A query \in Queries :
    LET out == ListDeals(query)
        rows == out.resp.row[1]
        wanted == {i \in DOMAIN deals : Satisfies(deals[i], query)}
    IN /\ out.resp.code = 200 /\ out.resp.error = ""
       /\ StoreUntouched(out)
       /\ {rows[k].id : k \in 1..Len(rows)} = wanted
       /\ Len(rows) = Cardinality(wanted)
       /\ \A k \in 1..Len(rows) :
            \A f \in DOMAIN deals[rows[k].id] : rows[k][f] = deals[rows[k].id][f]
       /\ \A k \in 1..(Len(rows) - 1) : rows[k].created_at > rows[k + 1].created_at

\* C14: the stats summary, computed over all stored deals, has total_deals =
\* number of deals, total_value = sum of amount, weighted_value = sum of
\* weighted_amount, won_value = sum of amount over the deals with status
\* gagne, active_deals = number of deals whose status is neither gagne nor
\* perdu.
RECURSIVE Total(_, _)
Total(ids, column) ==
  IF ids = {} THEN 0
  ELSE LET i == CHOOSE k \in ids : TRUE
       IN (IF deals[i][column] = None THEN 0 ELSE deals[i][column][1])
            + Total(ids \ {i}, column)

WithStatus(st) == {i \in DOMAIN deals : deals[i].status = st}

C14_SummaryAsDefined ==
  LET out == GetStats
      s == out.resp.row[1].summary
  IN /\ out.resp.code = 200
     /\ s.total_deals = Cardinality(DOMAIN deals)
     /\ s.total_value = Some(Total(DOMAIN deals, "amount"))
     /\ s.weighted_value = Some(Total(DOMAIN deals, "weighted_amount"))
     /\ s.won_value = Some(Total(WithStatus("gagne"), "amount"))
     /\ s.active_deals =
          Cardinality(DOMAIN deals \ (WithStatus("gagne") \cup WithStatus("perdu")))

\* C14 witness: stats just answered for two deals, one of them won with
\* amount 1000, the other one active.
C14_Witness ==
  /\ resp.op = "stats" /\ resp.code = 200
  /\ resp.row[1].summary.total_deals = 2
  /\ resp.row[1].summary.won_value = Some(1000)
  /\ resp.row[1].summary.active_deals = 1

\* C15: by_status has exactly one entry for each status held by a stored deal
\* and none for a status held by no deal, with count and total the number and
\* the summed amount of the deals in that status, and the entries come in the
\* order prospect, qualification, proposition, negociation, gagne, perdu.
FunnelRank(st) ==
  CASE st = "prospect" -> 1 [] st = "qualification" -> 2
    [] st = "proposition" -> 3 [] st = "negociation" -> 4
    [] st = "gagne" -> 5 [] st = "perdu" -> 6

C15_ByStatusInFunnelOrder ==
  LET list == GetStats.resp.row[1].by_status IN
    /\ {list[k].status : k \in 1..Len(list)} = {deals[i].status : i \in DOMAIN deals}
    /\ \A k \in 1..Len(list) :
         /\ DOMAIN list[k] = {"status", "count", "total"}
         /\ list[k].count = Cardinality(WithStatus(list[k].status))
         /\ list[k].count >= 1
         /\ list[k].total = Some(Total(WithStatus(list[k].status), "amount"))
    /\ \A k \in 1..(Len(list) - 1) :
         FunnelRank(list[k].status) < FunnelRank(list[k + 1].status)

\* C15 witness: stats just listed prospect before perdu while the deal created
\* first is the lost one.
C15_Witness ==
  /\ resp.op = "stats" /\ resp.code = 200
  /\ Len(resp.row[1].by_status) = 2
  /\ resp.row[1].by_status[1].status = "prospect"
  /\ resp.row[1].by_status[2].status = "perdu"
  /\ 1 \in DOMAIN deals /\ deals[1].status = "perdu"

\* C16: no sum that stats returns is null: with an empty store total_value,
\* weighted_value and won_value are 0 and so are total_deals and active_deals;
\* with a store that holds no won deal won_value is 0.
C16_SumsNeverNull ==
  LET st == GetStats.resp.row[1]
      s == st.summary
  IN /\ s.total_value # None /\ s.weighted_value # None /\ s.won_value # None
     /\ \A k \in 1..Len(st.by_status) : st.by_status[k].total # None
     /\ deals = <<>> =>
          /\ s.total_value = Some(0) /\ s.weighted_value = Some(0)
          /\ s.won_value = Some(0)
          /\ s.total_deals = 0 /\ s.active_deals = 0
          /\ st.by_status = <<>>
     /\ WithStatus("gagne") = {} => s.won_value = Some(0)

\* C16 witness: stats just answered zeros for a store emptied by a delete.
C16_Witness ==
  /\ resp.op = "stats" /\ resp.code = 200
  /\ deals = <<>> /\ nextId > 1
  /\ resp.row[1].summary.total_value = Some(0)
  /\ resp.row[1].summary.won_value = Some(0)

\* C17: every deal read back, by get, by list or as the record a create, an
\* update or a status change returns, has weighted_amount equal to
\* amount * probability / 100 for the amount and probability it shows.
WeightedConsistent(row) ==
  /\ row.amount # None
  /\ row.weighted_amount = Some((row.amount[1] * row.probability) \div 100)

ReturnsConsistent(out) ==
  (out.resp.code \in {200, 201} /\ out.resp.row # None) =>
    WeightedConsistent(out.resp.row[1])

MovedBy(id) ==
  /\ resp'.op = "transitionStatus" /\ resp'.code = 200
  /\ resp'.row[1].id = id
  /\ id \in DOMAIN deals /\ id \in DOMAIN deals'
  /\ deals'[id].status # deals[id].status

C18_WonAndBackInStats ==
  [][\A id \in ReqIds :
       MovedBy(id) =>
         LET before == StatsSummary(deals)
             after == StatsSummary(deals')
             a == deals[id].amount[1]
         IN /\ (deals[id].status \notin Terminal /\ deals'[id].status = "gagne") =>
                 /\ after.won_value = Some(before.won_value[1] + a)
                 /\ after.active_deals = before.active_deals - 1
                 /\ deals'[id].closed_at # None
            /\ (deals[id].status = "gagne" /\ deals'[id].status \notin Terminal) =>
                 /\ after.won_value = Some(before.won_value[1] - a)
                 /\ after.active_deals = before.active_deals + 1
                 /\ deals'[id].closed_at = None
            /\ after.total_deals = before.total_deals
            /\ after.total_value = before.total_value]_vars

\* C18 witness: a status change just moved a deal of amount 1000 to gagne and
\* stamped it.
C18_Witness ==
  /\ resp.op = "transitionStatus" /\ resp.code = 200
  /\ resp.row[1].status = "gagne" /\ resp.row[1].amount = Some(1000)
  /\ resp.row[1].closed_at # None
  /\ StatsSummary(deals).won_value[1] >= 1000

\* C19: when the requests in flight are transitionStatus or update requests on
\* the same stored deal, in every interleaving none is refused (each is
\* answered 200, or 500 when its own query threw), and the stored status and
\* closed_at both come from the request whose write was applied last: the
\* stored deal is the record that write returned, with that request's status
\* and the closed_at derived from it.
StatusWrite(p) ==
  /\ inflight[p].pc # "idle"
  /\ inflight[p].req.op \in {"transitionStatus", "update"}
  /\ IF inflight[p].req.op = "update"
       THEN ~BlankTitle(inflight[p].req.body.title)
            /\ (inflight[p].req.body.status = None
                  \/ inflight[p].req.body.status[1] \in SixStatuses)
       ELSE ~NotAStatus(inflight[p].req.status)

RequestedStatus(req) ==
  IF req.op = "transitionStatus" THEN req.status[1]
  ELSE IF req.body.status = None THEN "prospect" ELSE req.body.status[1]

Writers == {p \in Procs : inflight[p].wrote > 0}

LastWriter ==
  CHOOSE p \in Writers : \A q \in Writers : inflight[q].wrote <= inflight[p].wrote

C19_LastWriteWins ==
  \A id \in DOMAIN deals :
    (\A p \in Procs : inflight[p].pc = "idle"
                        \/ (StatusWrite(p) /\ inflight[p].req.id = id)) =>
      /\ \A p \in Procs :
           inflight[p].pc \in {"respond", "done"} =>
             LET answer == Reply(inflight[p].req, inflight[p].got) IN
               \/ answer.code = 200 /\ inflight[p].wrote > 0
               \/ answer.code = 500 /\ inflight[p].wrote = 0
      /\ Writers # {} =>
           LET last == inflight[LastWriter] IN
             /\ deals[id].status = RequestedStatus(last.req)
             /\ deals[id].closed_at # None <=> deals[id].status \in Terminal
             /\ deals[id] = last.got[Len(last.got)].row[1]
             /\ \A p \in Writers :
                  LET row == inflight[p].got[Len(inflight[p].got)].row[1] IN
                    /\ row.status = RequestedStatus(inflight[p].req)
                    /\ row.closed_at # None <=> row.status \in Terminal

\* C19 witness: two status changes on deal 1 overlapped: the request for gagne
\* wrote first and was answered last, the request for prospect wrote last, and
\* the stored deal is prospect with no closed_at.
C19_Witness ==
  /\ \A p \in Procs : inflight[p].pc = "done" /\ inflight[p].wrote > 0
  /\ inflight[1].req.op = "transitionStatus"
  /\ RequestedStatus(inflight[1].req) = "gagne"
  /\ RequestedStatus(inflight[LastWriter].req) = "prospect"
  /\ LastWriter # 1 /\ inflight[1].wrote = 1
  /\ resp.op = "transitionStatus" /\ resp.code = 200 /\ resp.row[1].status = "gagne"
  /\ deals[1].status = "prospect" /\ deals[1].closed_at = None

\* C20 as stated: every operation performs exactly one storage query per call,
\* and a request rejected by validation performs none.
Answered(p) == inflight[p].pc = "done"

AnswerOf(p) == Reply(inflight[p].req, inflight[p].got)

C20_OneQueryPerCall ==
  \A p \in Procs :
    Answered(p) =>
      IF AnswerOf(p).code = 400 THEN inflight[p].queries = 0
                                ELSE inflight[p].queries = 1

\* C20: create, update, transitionStatus, delete, get and list perform exactly
\* one storage query per call; stats performs two, the summary query and then
\* the by-status query (one only when the first throws); no query is issued
\* again after it threw; a request rejected by validation performs none.
C20_QueriesPerCall ==
  \A p \in Procs :
    LET me == inflight[p] IN
      /\ me.queries <= (IF me.req.op = "stats" THEN 2 ELSE 1)
      /\ me.pc = "query" => me.queries < (IF me.req.op = "stats" THEN 2 ELSE 1)
      /\ me.pc \in {"respond", "done"} =>
           IF AnswerOf(p).code = 400 THEN me.queries = 0
           ELSE IF me.req.op = "stats" THEN
             IF AnswerOf(p).code = 200 THEN me.queries = 2 ELSE me.queries \in {1, 2}
           ELSE me.queries = 1
      /\ (me.pc # "idle" /\ me.req.op = "transitionStatus" /\ NotAStatus(me.req.status)) =>
           me.pc = "done" /\ AnswerOf(p).code = 400
      /\ (me.pc # "idle" /\ me.req.op \in {"create", "update"}
            /\ BlankTitle(me.req.body.title)) =>
           me.pc = "done" /\ AnswerOf(p).code = 400

\* C20 witness: stats was answered after its two queries while a status change
\* with an unknown status was refused without any query.
C20_Witness ==
  \E p, q \in Procs :
    /\ Answered(p) /\ inflight[p].req.op = "stats"
    /\ AnswerOf(p).code = 200 /\ inflight[p].queries = 2
    /\ Answered(q) /\ inflight[q].req.op = "transitionStatus"
    /\ AnswerOf(q).code = 400 /\ inflight[q].queries = 0

\* C23: get(id) on a stored deal succeeds whether or not its contact_id,
\* company_id and assigned_to have a row in contacts, companies and users:
\* every display field is the referenced row's value when the reference is
\* set and has a row, and null otherwise; the deal's own fields are returned
\* as stored and the store is unchanged.
Shown(joined, ref, column) ==
  IF ref = None THEN None
  ELSE IF \E k \in DOMAIN joined : k = ref[1] THEN Some(joined[ref[1]][column])
  ELSE None

C23_GetResolvesOrNulls ==
  \A id \in DOMAIN deals :
    LET out == GetDeal(id)
        row == out.resp.row[1]
        d == deals[id]
    IN /\ out.resp.code = 200 /\ out.resp.error = ""
       /\ StoreUntouched(out)
       /\ \A f \in DOMAIN d : row[f] = d[f]
       /\ row.first_name = Shown(Contacts, d.contact_id, "first_name")
       /\ row.last_name = Shown(Contacts, d.contact_id, "last_name")
       /\ row.contact_email = Shown(Contacts, d.contact_id, "email")
       /\ row.company_name = Shown(Companies, d.company_id, "name")
       /\ row.assigned_first_name = Shown(Users, d.assigned_to, "first_name")
       /\ row.assigned_last_name = Shown(Users, d.assigned_to, "last_name")

\* C23 witness: get just returned a deal whose contact has no row (its contact
\* fields are null), whose company is not set and whose assignee resolves.
C23_Witness ==
  /\ resp.op = "get" /\ resp.code = 200
  /\ resp.row[1].contact_id = Some("c2") /\ resp.row[1].contact_email = None
  /\ resp.row[1].company_id = None /\ resp.row[1].company_name = None
  /\ resp.row[1].assigned_first_name = Some("Grace")

\* C22: the closed_at derivation is unconditional: when transitionStatus(id, s)
\* is applied to a deal that the previous request, also transitionStatus(id, s),
\* left as it is, status and the nullness of closed_at stay the same and, s
\* being gagne or perdu, closed_at becomes the time of this second write; when
\* a deal is moved from gagne to perdu or back, closed_at becomes the time of
\* that write as well.
JustPatched(id) ==
  /\ resp.op = "transitionStatus" /\ resp.code = 200
  /\ id \in DOMAIN deals /\ resp.row[1] = deals[id]

PatchedNow(id) ==
  /\ resp'.op = "transitionStatus" /\ resp'.code = 200
  /\ resp'.row[1].id = id
  /\ now' = now
  /\ id \in DOMAIN deals'

C22_ClosedAtRederived ==
  [][\A id \in ReqIds :
       (JustPatched(id) /\ PatchedNow(id)) =>
         LET before == deals[id]
             after == deals'[id]
         IN /\ after = resp'.row[1]
            /\ after.status = before.status =>
                 /\ (after.closed_at = None) <=> (before.closed_at = None)
                 /\ after.status \in Terminal => after.closed_at = Some(now)
            /\ (before.status \in Terminal /\ after.status \in Terminal) =>
                 after.closed_at = Some(now)]_vars

\* C22 witness: a deal stamped at time 0 by a status change to gagne is still
\* as that change left it at time 1, when the next request can repeat it.
C22_Witness ==
  /\ now = 1
  /\ \E id \in ReqIds :
       /\ JustPatched(id)
       /\ deals[id].status = "gagne" /\ deals[id].closed_at = Some(0)

\* C25: every stored deal has a non-empty title with no leading or trailing
\* whitespace: create and update refuse an absent, empty or whitespace-only
\* title, store the title they are given trimmed, and transitionStatus leaves
\* the title alone.
TrimmedTitle(title) ==
  /\ title # <<>>
  /\ title[1] \notin {" ", "\t"} /\ title[Len(title)] \notin {" ", "\t"}

C25_StoredTitleTrimmed ==
  /\ \A i \in DOMAIN deals : TrimmedTitle(deals[i].title)
  /\ \A body \in Bodies :
       LET out == PostDeal(body) IN
         IF BlankTitle(body.title)
           THEN Fails(out, 400, "Titre requis") /\ StoreUntouched(out)
           ELSE out.resp.code = 201 =>
                  /\ TrimmedTitle(out.resp.row[1].title)
                  /\ IsTrimOf(out.resp.row[1].title, body.title[1])
                  /\ out.deals[out.resp.row[1].id].title = out.resp.row[1].title
  /\ \A id \in ReqIds, body \in Bodies :
       LET out == PutDeal(id, body) IN
         IF BlankTitle(body.title)
           THEN Fails(out, 400, "Titre requis") /\ StoreUntouched(out)
           ELSE out.resp.code = 200 =>
                  /\ TrimmedTitle(out.deals[id].title)
                  /\ IsTrimOf(out.deals[id].title, body.title[1])
  /\ \A id \in DOMAIN deals, status \in StatusInputs :
       LET out == PatchStatus(id, status) IN
         id \in DOMAIN out.deals /\ out.deals[id].title = deals[id].title

\* C25 witness: an update just stored the title "a", given with whitespace
\* around it, on a deal created second.
C25_Witness ==
  /\ resp.op = "update" /\ resp.code = 200
  /\ resp.row[1].title = <<"a">> /\ resp.row[1].id = 2
  /\ deals[2].title = <<"a">>

\* C26: a successful update whose request gives no status (absent or empty)
\* sets status to prospect and closed_at to null, whatever the deal held; one
\* whose request gives no amount sets amount to 0.
NoStatusGiven(body) == body.status = None \/ body.status = Some("")

C26_UpdateDefaults ==
  \A id \in DOMAIN deals, body \in Bodies :
    LET out == PutDeal(id, body) IN
      out.resp.code = 200 =>
        /\ NoStatusGiven(body) =>
             /\ out.deals[id].status = "prospect"
             /\ out.deals[id].closed_at = None
             /\ out.resp.row[1].status = "prospect"
             /\ out.resp.row[1].closed_at = None
        /\ body.amount = None =>
             out.deals[id].amount = Some(0) /\ out.resp.row[1].amount = Some(0)

\* C26 witness: an update just left a deal at prospect with amount 0 and no
\* closed_at while the store's other deal is closed with amount 1000.
C26_Witness ==
  /\ resp.op = "update" /\ resp.code = 200
  /\ resp.row[1].status = "prospect" /\ resp.row[1].closed_at = None
  /\ resp.row[1].amount = Some(0) /\ resp.row[1].description = None
  /\ \E j \in DOMAIN deals :
       deals[j].status \in Terminal /\ deals[j].amount = Some(1000)

\* C27: validation comes first and in a fixed order: create and update answer
\* a blank title with "Titre requis" even when the status is invalid too;
\* update and transitionStatus answer an invalid status with "Statut invalide"
\* even when the id has no deal; the store is untouched every time.  (For
\* create and update an invalid status is a non-empty one outside the six.)
UnknownStatus(status) ==
  status # None /\ status[1] # "" /\ status[1] \notin SixStatuses

C27_ValidationOrder ==
  /\ \A body \in Bodies :
       BlankTitle(body.title) =>
         /\ Fails(PostDeal(body), 400, "Titre requis")
         /\ StoreUntouched(PostDeal(body))
         /\ \A id \in ReqIds :
              /\ Fails(PutDeal(id, body), 400, "Titre requis")
              /\ StoreUntouched(PutDeal(id, body))
  /\ \A body \in Bodies :
       (~BlankTitle(body.title) /\ UnknownStatus(body.status)) =>
         /\ Fails(PostDeal(body), 400, "Statut invalide")
         /\ \A id \in ReqIds :
              /\ Fails(PutDeal(id, body), 400, "Statut invalide")
              /\ StoreUntouched(PutDeal(id, body))
  /\ \A id \in ReqIds, status \in StatusInputs :
       NotAStatus(status) =>
         /\ Fails(PatchStatus(id, status), 400, "Statut invalide")
         /\ StoreUntouched(PatchStatus(id, status))

\* C27 witness: an update with an unknown status was just answered "Statut
\* invalide" although the store holds no deal at all.
C27_Witness ==
  /\ resp.op = "update" /\ resp.code = 400 /\ resp.error = "Statut invalide"
  /\ deals = <<>>

\* C28: in one stats result computed on one state of the store, the by_status
\* counts sum to total_deals, the by_status totals sum to total_value, the
\* total of the gagne entry (0 when there is none) is won_value, and
\* active_deals is total_deals minus the counts of the gagne and perdu entries.
RECURSIVE SumOver(_, _)
SumOver(list, field) ==
  IF list = <<>> THEN 0
  ELSE (IF field = "count" THEN Head(list).count ELSE Head(list).total[1])
         + SumOver(Tail(list), field)

EntriesOf(list, st) == SelectSeq(list, LAMBDA e : e.status = st)

C28_StatsAddUp ==
  LET st == GetStats.resp.row[1]
      s == st.summary
      list == st.by_status
  IN /\ SumOver(list, "count") = s.total_deals
     /\ Some(SumOver(list, "total")) = s.total_value
     /\ Some(SumOver(EntriesOf(list, "gagne"), "total")) = s.won_value
     /\ s.active_deals =
          s.total_deals - SumOver(EntriesOf(list, "gagne"), "count")
                        - SumOver(EntriesOf(list, "perdu"), "count")

\* C28 witness: stats just answered for a won deal of 1000 and a lost deal.
C28_Witness ==
  /\ resp.op = "stats" /\ resp.code = 200
  /\ Len(resp.row[1].by_status) = 2
  /\ resp.row[1].by_status[1].status = "gagne"
  /\ resp.row[1].by_status[1].total = Some(1000)
  /\ resp.row[1].by_status[2].status = "perdu"
  /\ resp.row[1].summary.active_deals = 0

\* C21: stats is not a snapshot.  Its summary is the aggregate of the table at
\* the first query and its by_status list the aggregate of the table at the
\* second, and the answer pairs the two as read; the two add up whenever the
\* table's summary at the second query is still the one read first.  A create,
\* delete or status change executed between the two queries shows in one
\* answer whose by_status counts do not sum to total_deals (the witness).
StatsReads(p) ==
  /\ inflight[p].req.op = "stats"
  /\ inflight[p].pc = "query"
  /\ inflight'[p].queries = inflight[p].queries + 1
  /\ Len(inflight'[p].got) = Len(inflight[p].got) + 1
  /\ inflight'[p].got[Len(inflight'[p].got)].code = 200

AddsUp(summary, list) ==
  /\ SumOver(list, "count") = summary.total_deals
  /\ Some(SumOver(list, "total")) = summary.total_value

C21_StatsReadsAtTwoMoments ==
  /\ [][\A p \in Procs :
          StatsReads(p) =>
            LET read == inflight'[p].got[Len(inflight'[p].got)].row[1] IN
              /\ deals' = deals
              /\ IF inflight[p].queries = 0
                   THEN read = StatsSummary(deals)
                   ELSE /\ read = StatsByStatus(deals)
                        /\ inflight'[p].got[1] = inflight[p].got[1]
                        /\ StatsSummary(deals) = inflight[p].got[1].row[1] =>
                             AddsUp(inflight[p].got[1].row[1], read)]_vars
  /\ [](\A p \in Procs :
          (inflight[p].req.op = "stats" /\ inflight[p].pc \in {"respond", "done"}
             /\ AnswerOf(p).code = 200) =>
            /\ AnswerOf(p).row[1].summary = inflight[p].got[1].row[1]
            /\ AnswerOf(p).row[1].by_status = inflight[p].got[2].row[1])

\* C21 witness: stats was answered with by_status counts that do not sum to
\* its total_deals, a create having been executed between its two queries.
C21_Witness ==
  /\ resp.op = "stats" /\ resp.code = 200
  /\ resp.row[1].summary.total_deals = 1
  /\ SumOver(resp.row[1].by_status, "count") = 2
  /\ Cardinality(DOMAIN deals) = 2

\* C24: every answer of a deal handler is a success (200, 201), a validation
\* failure (400, "Titre requis" or "Statut invalide", sent before any query),
\* not found (404), or the server error (500); a query that throws is answered
\* 500, and the step on which it throws leaves the store as it was; a handler
\* answers once: it is done when its answer is sent and nothing of it changes
\* afterwards.
Thrown(p) ==
  /\ inflight[p].got # <<>>
  /\ inflight[p].got[Len(inflight[p].got)].code = 500

Throwing(p) ==
  /\ inflight[p].pc = "query"
  /\ Len(inflight'[p].got) = Len(inflight[p].got) + 1
  /\ inflight'[p].got[Len(inflight'[p].got)].code = 500

C24_OutcomesAndFailures ==
  /\ [](\A p \in Procs :
          inflight[p].pc \in {"respond", "done"} =>
            LET a == AnswerOf(p) IN
              /\ a.code \in {200, 201, 400, 404, 500}
              /\ a.code = 400 =>
                   a.error \in {"Titre requis", "Statut invalide"}
                     /\ inflight[p].queries = 0
              /\ a.code = 404 => a.error = "Deal introuvable"
              /\ a.code = 500 <=> Thrown(p)
              /\ a.code \in {400, 404, 500} => a.row = None)
  /\ [][\A p \in Procs :
          Throwing(p) =>
            /\ deals' = deals /\ nextId' = nextId
            /\ inflight'[p].pc = "respond" /\ inflight'[p].todo = <<>>
            /\ inflight'[p].queries = inflight[p].queries + 1]_vars
  /\ [][\A p \in Procs :
          /\ inflight[p].pc = "done" => inflight'[p] = inflight[p]
          /\ (inflight[p].pc # "done" /\ inflight'[p].pc = "done") =>
               resp' = Reply(inflight'[p].req, inflight'[p].got)]_vars

\* C24 witness: a status change to gagne was just answered 500, its query
\* having thrown, and the deal is still a prospect.
C24_Witness ==
  /\ resp.op = "transitionStatus" /\ resp.code = 500
  /\ \E p \in Procs :
       /\ Answered(p) /\ Thrown(p)
       /\ inflight[p].req.op = "transitionStatus"
       /\ inflight[p].req.status = Some("gagne") /\ inflight[p].req.id = 1
  /\ deals[1].status = "prospect" /\ deals[1].closed_at = None

\* C29: every deal route is behind requireAuth: a request with no
\* Authorization header, with a header that does not start with "Bearer ", or
\* with a token that fails verification is answered 401; no handler runs for
\* it, and the step that answers it leaves the store and the handlers alone.
NotLoggedIn(h) ==
  \/ h = None
  \/ h[1].scheme # "Bearer "
  \/ h[1].token = None
  \/ h[1].token[1].signedWith # JWT_SECRET
  \/ h[1].token[1].expired

DealRoutes ==
  {"list", "stats", "get", "create", "update", "transitionStatus", "delete"}

C29_RoutesBehindRequireAuth ==
  /\ [](/\ {req.op : req \in RouteSamples} = DealRoutes
        /\ \A req \in RouteSamples, h \in BadHeaders \cup {GoodHeader} :
             NotLoggedIn(h) <=> RequireAuth(WithHeader(req, h).auth) # None
        /\ \A p \in Procs :
             inflight[p].pc # "idle" => ~NotLoggedIn(inflight[p].req.auth))
  /\ [][(resp' # resp /\ resp'.code = 401) =>
          /\ deals' = deals /\ nextId' = nextId /\ inflight' = inflight
          /\ resp'.row = None
          /\ resp'.error \in {"missing token", "invalid token"}]_vars
  /\ [][\A p \in Procs :
          (inflight[p].pc = "idle" /\ inflight'[p].pc # "idle") =>
            ~NotLoggedIn(inflight'[p].req.auth)]_vars

\* C29 witness: a delete with a token signed with another key was just
\* answered 401; no handler has run and the deal is still stored.
C29_Witness ==
  /\ resp.op = "delete" /\ resp.code = 401 /\ resp.error = "invalid token"
  /\ \A p \in Procs : inflight[p].pc = "idle"
  /\ 1 \in DOMAIN deals

\* C30: on the deals page, onDelete (confirmed, with a token) takes the deal
\* off the displayed list whenever the DELETE request gets an HTTP response,
\* 401, 404 and 500 included, and keeps it only when the fetch throws; a
\* response that is not a success leaves the store as it was, so the list
\* then omits a deal that is still stored; loadDeals displays the stored
\* deals again, and a deal comes (back) onto the list only through loadDeals.
Listed(shown) == {shown[k].id : k \in 1..Len(shown)}

C30_OnDeleteDropsOnAnyResponse ==
  /\ [](\A id \in ShownIds, fault \in Faults :
          (page.at = "deals" /\ page.token # None) =>
            LET click == OnDeleteOutcome(id, TRUE, fault) IN
              IF fault \in {"fetch throws", "response lost"}
                THEN click.page.shown = page.shown
                ELSE /\ Listed(click.page.shown) = ShownIds \ {id}
                     /\ click.resp.op = "delete"
                     /\ click.resp.code \in {200, 401, 404, 500}
                     /\ click.resp.code # 200 =>
                          click.deals = deals /\ click.nextId = nextId
                     /\ (click.resp.code \in {401, 500} /\ id \in DOMAIN deals) =>
                          id \in DOMAIN click.deals
                            /\ id \notin Listed(click.page.shown))
  /\ []((page.at = "deals" /\ page.token # None /\ Verifies(page.token[1])) =>
          Listed(LoadDealsOutcome("none").page.shown) = DOMAIN deals)
  /\ [][~(ShownIds' \subseteq ShownIds) =>
          resp'.op = "list" /\ resp'.code = 200]_vars

\* C30 witness: the DELETE the page just sent was answered 500; the deal it
\* asked to delete is still in the store and no longer on the page.
C30_Witness ==
  /\ page.at = "deals"
  /\ resp.op = "delete" /\ resp.code = 500
  /\ page.asked \in DOMAIN deals
  /\ page.asked \notin ShownIds

====
